---- MODULE Spec2Model ----
(***************************************************************************)
(* A model of fileWatcher.py: FilesWatcher (setup of the watches from the  *)
(* YAML sources, the polling loop, the computation of the triggered        *)
(* definitions and the command pipelines) and MonitorAnyFileChange (the    *)
(* event handler that records changed paths).                              *)
(*                                                                         *)
(* Encoding of the Python values:                                          *)
(*   - a str is a tuple of one-character strings (paths, globs) or of      *)
(*     words (commands); a regular expression is a tuple of tokens: a      *)
(*     literal character, ".*" or "$";                                     *)
(*   - a YAML value that may be a str or a list is [kind |-> "str", v |->  *)
(*     s] or [kind |-> "list", v |-> <<x1, ..., xn>>];                     *)
(*   - a dict is a function on its keys; a YAML document (an ordered       *)
(*     mapping) is a sequence of [name, defn] entries.                     *)
(***************************************************************************)
EXTENDS Integers, Sequences, FiniteSets, TLC

VARIABLES
    config,                     \* source -> parsed YAML document (the files of args.paths)
    fs,                         \* the paths that exist (what glob.iglob sees)
    args,                       \* the Namespace of process_args
    skipFileExists,             \* os.path.exists(args.skip_file), as the environment has it
    pc,                         \* where main()/start() stands
    event_handlers,             \* FilesWatcher.event_handlers
    observer,                   \* FilesWatcher.observer: "none", "scheduled", "started",
                                \* "failed" (start() raised), "stopped"
    watched,                    \* the handlers (indices) whose watch is started
    _monitor_defns_defaults,    \* FilesWatcher._monitor_defns_defaults
    reported,                   \* the globs printed as "ERROR: No glob expansion for"
    triggered_monitor_defn_keys,\* local of start()
    has_skip_file,              \* local of start()
    i_handler,                  \* position of start()'s second loop over event_handlers
    commands_key,               \* argument of the running _run_commands call
    i_command,                  \* position of _run_commands' loop over commands
    res,                        \* local of start(): result of _run_commands(.., 'commands')
    delivered,                  \* the events delivered since setup, as <<handler, path>>
    late,                       \* those of them delivered after the polling loop ended
    missed,                     \* the paths changed under no started watch since the last stop
    trace                       \* this cycle's _run_commands calls, subprocess runs and returns

vars == <<config, fs, args, skipFileExists, pc, event_handlers, observer, watched,
          _monitor_defns_defaults, reported, triggered_monitor_defn_keys,
          has_skip_file, i_handler, commands_key, i_command, res, delivered, late,
          missed, trace>>

----------------------------------------------------------------------------
(* Bounds of the model. *)

MaxPathLen == 2         \* length of the event paths drawn for one collector
MaxEvents == 2          \* distinct events delivered to one collector in a cycle
MaxEntries == 2         \* entries of a generated YAML document
MaxGlobs == 2           \* globs in a generated `paths` list

----------------------------------------------------------------------------
(* Python values. *)

None == "None"

EmptyDict == [k \in {} |-> TRUE]

Str(s) == [kind |-> "str", v |-> s]

List(l) == [kind |-> "list", v |-> l]

\* isinstance(x, str) ... x = [x]: a single string read as a list of one string.
as_list(x) == IF x.kind = "str" THEN <<x.v>> ELSE x.v

\* Mutant of dict_or: the left operand wins per key.
dict_or_left(d, m) ==
    [k \in (DOMAIN d) \cup (DOMAIN m) |-> IF k \in DOMAIN d THEN d[k] ELSE m[k]]

\* d | m (dict union, the right operand wins per key).
dict_or(d, m) ==
    [k \in (DOMAIN d) \cup (DOMAIN m) |-> IF k \in DOMAIN m THEN m[k] ELSE d[k]]

\* d[key] = value
set_item(d, key, value) ==
    [k \in (DOMAIN d) \cup {key} |-> IF k = key THEN value ELSE d[k]]

----------------------------------------------------------------------------
(* re.match / re.search on the token form of a regular expression. *)

RECURSIVE MatchAt(_, _, _)
\* The pattern matches a substring of s that starts at position i.
MatchAt(pattern, s, i) ==
    IF pattern = <<>> THEN TRUE
    ELSE IF Head(pattern) = ".*"
         THEN \E k \in i..(Len(s) + 1) : MatchAt(Tail(pattern), s, k)
    ELSE IF Head(pattern) = "$"
         THEN i = Len(s) + 1 /\ MatchAt(Tail(pattern), s, i)
    ELSE i <= Len(s) /\ s[i] = Head(pattern) /\ MatchAt(Tail(pattern), s, i + 1)

\* re.match(pattern, s): a match at the beginning of s.
re_match(pattern, s) == MatchAt(pattern, s, 1)

\* re.search(pattern, s): a match anywhere in s.
re_search(pattern, s) == \E i \in 1..(Len(s) + 1) : MatchAt(pattern, s, i)

----------------------------------------------------------------------------
(* glob.iglob on character tuples: "*" matches any run of non-"/" characters. *)

RECURSIVE GlobMatch(_, _)
GlobMatch(g, p) ==
    IF g = <<>> THEN p = <<>>
    ELSE IF Head(g) = "*"
         THEN \E k \in 0..Len(p) :
                 /\ \A j \in 1..k : p[j] # "/"
                 /\ GlobMatch(Tail(g), SubSeq(p, k + 1, Len(p)))
    ELSE p # <<>> /\ Head(p) = Head(g) /\ GlobMatch(Tail(g), Tail(p))

\* Every path of the model, in the order a directory scan yields them.
PathOrder ==
    << <<"s">>, <<"e">>, <<"t">>, <<"m", "/", "a">>, <<"m", "/", "b">> >>

IsMatch(g, files, p) == p \in files /\ GlobMatch(g, p)

\* glob.iglob(path_glob, recursive=True) against the existing paths.
glob_iglob(path_glob, files) ==
    SelectSeq(PathOrder, LAMBDA p : IsMatch(path_glob, files, p))

----------------------------------------------------------------------------
(* MonitorAnyFileChange *)

\* MonitorAnyFileChange.__init__: the collector of one watch target.
MonitorAnyFileChange(path, monitor_defn, monitor) ==
    [path |-> path, monitor_defn |-> monitor_defn, monitor |-> monitor, files |-> {}]

\* Mutant of has_change: every collector counts as changed.
has_change_always(event_handler) == TRUE

\* has_change
has_change(event_handler) == Cardinality(event_handler.files) > 0

\* Mutant of _handle_event: the patterns are tried with re.search.
_handle_event_search(event_handler, src_path) ==
    IF "patterns" \in DOMAIN event_handler.monitor
    THEN IF \E k \in 1..Len(event_handler.monitor["patterns"]) :
                re_search(event_handler.monitor["patterns"][k], src_path)
         THEN event_handler.files \cup {src_path}
         ELSE event_handler.files
    ELSE IF src_path # <<>>
         THEN event_handler.files \cup {src_path}
         ELSE event_handler.files

\* _handle_event: the recorded set after an event with path src_path.
_handle_event(event_handler, src_path) ==
    IF "patterns" \in DOMAIN event_handler.monitor
    THEN IF \E k \in 1..Len(event_handler.monitor["patterns"]) :
                re_match(event_handler.monitor["patterns"][k], src_path)
         THEN event_handler.files \cup {src_path}
         ELSE event_handler.files
    ELSE IF src_path # <<>>
         THEN event_handler.files \cup {src_path}
         ELSE event_handler.files

----------------------------------------------------------------------------
(* FilesWatcher._setup_observers and what it calls.  The state of a setup  *)
(* in progress is st = [handlers, defaults, reported, failed]: the event   *)
(* handlers appended so far, _monitor_defns_defaults, the globs reported   *)
(* and how the setup ended ("no": still running; "exit": exit(1);          *)
(* "KeyError", "IndexError": an uncaught exception).                       *)

\* _add_monitor
_add_monitor(handlers, path, monitor_defn, monitor) ==
    Append(handlers, MonitorAnyFileChange(path, monitor_defn, monitor))

RECURSIVE iglob_loop(_, _, _, _, _)
\* for path in glob.iglob(path_glob, recursive=True): self._add_monitor(...)
iglob_loop(handlers, found, k, monitor_defn, search_defn) ==
    IF k > Len(found) THEN handlers
    ELSE iglob_loop(_add_monitor(handlers, found[k], monitor_defn, search_defn),
                    found, k + 1, monitor_defn, search_defn)

RECURSIVE paths_loop(_, _, _, _, _, _)
\* for i_glob, path_glob in enumerate(paths): ...
paths_loop(handlers, paths, k, files, monitor_defn, search_defn) ==
    IF k > Len(paths) THEN handlers
    ELSE paths_loop(iglob_loop(handlers, glob_iglob(paths[k], files), 1,
                               monitor_defn, search_defn),
                    paths, k + 1, files, monitor_defn, search_defn)

\* The body of "for search_defn in searches".  found_path is set by any glob
\* of the list; the test after the loop names the last glob of the list.
search_body(st, monitor_defn, search_defn, files, strict) ==
    IF "paths" \notin DOMAIN search_defn
    THEN [st EXCEPT !.failed = "KeyError"]
    ELSE LET paths == as_list(search_defn["paths"])
             handlers == paths_loop(st.handlers, paths, 1, files,
                                    monitor_defn, search_defn)
             found_path == Len(handlers) > Len(st.handlers)
         IN  IF ~found_path /\ Len(paths) > 0
             THEN [st EXCEPT !.handlers = handlers,
                             !.reported = Append(@, paths[Len(paths)]),
                             !.failed = IF strict THEN "exit" ELSE "no"]
             ELSE [st EXCEPT !.handlers = handlers]

RECURSIVE searches_loop(_, _, _, _, _, _)
searches_loop(st, monitor_defn, searches, k, files, strict) ==
    IF k > Len(searches) \/ st.failed # "no" THEN st
    ELSE searches_loop(search_body(st, monitor_defn, searches[k], files, strict),
                       monitor_defn, searches, k + 1, files, strict)

\* The body of "for defn_name, monitor_defn in monitor_defns.items()".
defn_body(st, source, defn_name, raw_defn, files, strict) ==
    IF defn_name = <<"__defaults__">>
    THEN [st EXCEPT !.defaults = raw_defn]
    ELSE LET merged == dict_or(st.defaults, raw_defn)
             monitor_defn ==
                 set_item(set_item(merged, "__name", defn_name),
                          "__key", source \o <<":">> \o defn_name)
         IN  IF "searches" \notin DOMAIN monitor_defn
             THEN [st EXCEPT !.failed = "KeyError"]
             ELSE LET searches == monitor_defn["searches"]
                  IN  IF searches.kind = "str"
                      THEN searches_loop(st, monitor_defn,
                                         << ("paths" :> List(<<searches.v>>)) >>,
                                         1, files, strict)
                      ELSE IF searches.v = <<>>
                      THEN [st EXCEPT !.failed = "IndexError"]
                      ELSE IF searches.kind = "strlist"
                      THEN searches_loop(st, monitor_defn,
                                         << ("paths" :> List(searches.v)) >>,
                                         1, files, strict)
                      ELSE searches_loop(st, monitor_defn, searches.v, 1, files, strict)

RECURSIVE defns_loop(_, _, _, _, _, _)
defns_loop(st, source, monitor_defns, k, files, strict) ==
    IF k > Len(monitor_defns) \/ st.failed # "no" THEN st
    ELSE defns_loop(defn_body(st, source, monitor_defns[k].name,
                              monitor_defns[k].defn, files, strict),
                    source, monitor_defns, k + 1, files, strict)

\* Mutant of _start_monitors: the defaults of the last source are kept.
_start_monitors_kept(st, source, monitor_defns, files, strict) ==
    defns_loop(st, source, monitor_defns, 1, files, strict)

\* _start_monitors: the defaults are emptied first, then the definitions are
\* taken in document order.
_start_monitors(st, source, monitor_defns, files, strict) ==
    defns_loop([st EXCEPT !.defaults = EmptyDict], source, monitor_defns, 1,
               files, strict)

RECURSIVE yaml_loop(_, _, _, _, _, _)
\* for yaml_file in self.args.paths: ... self._start_monitors(yaml_file, monitor_defns)
yaml_loop(st, paths, k, documents, files, strict) ==
    IF k > Len(paths) \/ st.failed # "no" THEN st
    ELSE yaml_loop(_start_monitors(st, paths[k], documents[paths[k]], files, strict),
                   paths, k + 1, documents, files, strict)

\* Mutant of _setup_observers: the handlers of the last cycle are kept.
_setup_observers_kept(defaults, paths, documents, files, strict) ==
    yaml_loop([handlers |-> event_handlers, defaults |-> defaults, reported |-> <<>>,
               failed |-> "no"],
              paths, 1, documents, files, strict)

\* _setup_observers up to observer.start(): event_handlers is emptied, the
\* defaults are what the last cycle left.
_setup_observers(defaults, paths, documents, files, strict) ==
    yaml_loop([handlers |-> <<>>, defaults |-> defaults, reported |-> <<>>,
               failed |-> "no"],
              paths, 1, documents, files, strict)

----------------------------------------------------------------------------
(* FilesWatcher.start after the watches are stopped, and _run_commands. *)

\* Exit codes a command may return.
ExitCodes == {0, 1, 2}

RECURSIVE str_replace(_, _)
\* command.replace('_MONITOR_NAME_', monitor_defn['__name'])
str_replace(command, name) ==
    IF command = <<>> THEN <<>>
    ELSE (IF Head(command) = "_MONITOR_NAME_" THEN name ELSE <<Head(command)>>)
         \o str_replace(Tail(command), name)

\* if commands_key in monitor_defn: commands = monitor_defn[commands_key] ...
\* (a missing key leaves the loop with nothing to run).
commands_of(monitor_defn, key) ==
    IF key \in DOMAIN monitor_defn THEN as_list(monitor_defn[key]) ELSE <<>>

\* Mutant of returns_now: a failing command does not end the list.
returns_now_never(returncode) == FALSE

\* "if res.returncode: return res.returncode"
returns_now(returncode) == returncode # 0

\* Mutant of is_unrun: the set of run definitions is not consulted.
is_unrun_always(monitor_key) == TRUE

\* "if not monitor_key in triggered_monitor_defn_keys"
is_unrun(monitor_key) == monitor_key \notin triggered_monitor_defn_keys

\* Mutant of first_key: the skip file is looked up again for every definition.
first_key_resampled ==
    IF args.skip_file # None /\ skipFileExists THEN "skipped" ELSE "commands"

\* "if has_skip_file: ... 'skipped' else: ... 'commands'"
first_key == IF has_skip_file THEN "skipped" ELSE "commands"

\* Mutant of hook_key: the two hooks are swapped.
hook_key_swapped(result) == IF result = 0 THEN "error" ELSE "completed"

\* 'completed' if res == 0 else 'error'
hook_key(result) == IF result = 0 THEN "completed" ELSE "error"

\* self.args.skip_file and os.path.exists(self.args.skip_file)
skip_file_sample == args.skip_file # None /\ skipFileExists

\* Entries of the trace.
CallEntry(key, list) ==
    [op |-> "call", key |-> key, list |-> list, idx |-> 0, cmd |-> <<>>, rc |-> 0]

RunEntry(key, list, idx, cmd, rc) ==
    [op |-> "run", key |-> key, list |-> list, idx |-> idx, cmd |-> cmd, rc |-> rc]

ReturnEntry(key, list, rc) ==
    [op |-> "return", key |-> key, list |-> list, idx |-> 0, cmd |-> <<>>, rc |-> rc]

----------------------------------------------------------------------------
(* Actions. *)

\* The paths the environment may remove while a setup is under way, after
\* glob.iglob has returned them and before observer.start() reaches them.
CanVanish == { <<"m", "/", "a">> }

Vanishing(files) == { {} } \cup { {p} : p \in files \cap CanVanish }

\* self.observer.start() raises FileNotFoundError: a scheduled path is gone.
start_raises(handlers, files) ==
    \E i \in 1..Len(handlers) : handlers[i].path \notin files

\* The watches self.observer.start() has started when it returns or raises:
\* all of them on success; when it raises, the single call has ended part
\* way through the scheduled paths, with any of those that exist watched
\* (for every handler scheduled on them) and the rest not.
started_by(handlers, files) ==
    IF start_raises(handlers, files)
    THEN { { i \in 1..Len(handlers) : handlers[i].path \in S } :
             S \in SUBSET { handlers[i].path : i \in { j \in 1..Len(handlers) :
                                                        handlers[j].path \in files } } }
    ELSE { 1..Len(handlers) }

\* How _setup_observers ends: the failure of the loops, or that of
\* "try: self.observer.start() except FileNotFoundError: if exit_on_error: exit(1)".
setup_end(failed, raised, strict) ==
    IF failed = "exit" THEN "exited"
    ELSE IF failed # "no" THEN "crashed"
    ELSE IF raised /\ strict THEN "exited"
    ELSE "watching"

\* start() calls _setup_observers: the handlers are rebuilt from the sources
\* and the observer is started; exit(1) and an uncaught exception end the
\* process.
Setup ==
    /\ pc = "idle"
    /\ LET st == _setup_observers(_monitor_defns_defaults, args.paths, config, fs,
                                  args.exit_on_error)
       IN  \E gone \in (IF st.failed = "no" THEN Vanishing(fs) ELSE { {} }) :
               LET raised == st.failed = "no" /\ start_raises(st.handlers, fs \ gone)
               IN  /\ fs' = fs \ gone
                   /\ event_handlers' = st.handlers
                   /\ _monitor_defns_defaults' = st.defaults
                   /\ reported' = st.reported
                   /\ observer' = IF st.failed # "no" THEN "scheduled"
                                  ELSE IF raised THEN "failed" ELSE "started"
                   /\ watched' \in (IF st.failed # "no" THEN { {} }
                                    ELSE started_by(st.handlers, fs \ gone))
                   /\ pc' = setup_end(st.failed, raised, args.exit_on_error)
    /\ trace' = <<>>
    /\ delivered' = {}
    /\ late' = {}
    /\ UNCHANGED <<config, args, skipFileExists, triggered_monitor_defn_keys,
                   has_skip_file, i_handler, commands_key, i_command, res, missed>>

\* Mutant of Deliver: events reach a handler whose watch is not started.
DeliverUnwatched(i, src_path) ==
    /\ Cardinality({ e \in delivered : e[1] = i }) < MaxEvents
    /\ event_handlers' =
           [event_handlers EXCEPT ![i].files = _handle_event(event_handlers[i], src_path)]
    /\ delivered' = delivered \cup {<<i, src_path>>}
    /\ UNCHANGED <<config, fs, args, skipFileExists, pc, observer, watched, missed,
                   _monitor_defns_defaults, reported, triggered_monitor_defn_keys,
                   has_skip_file, i_handler, commands_key, i_command, res, trace>>

\* Mutant of Deliver: once the polling loop has ended, events are dropped.
DeliverUntilDetected(i, src_path) ==
    /\ i \in watched
    /\ Cardinality({ e \in delivered : e[1] = i }) < MaxEvents
    /\ event_handlers' =
           [event_handlers EXCEPT
               ![i].files = IF pc = "watching"
                            THEN _handle_event(event_handlers[i], src_path)
                            ELSE @]
    /\ delivered' = delivered \cup {<<i, src_path>>}
    /\ UNCHANGED <<config, fs, args, skipFileExists, pc, observer, watched, missed,
                   _monitor_defns_defaults, reported, triggered_monitor_defn_keys,
                   has_skip_file, i_handler, commands_key, i_command, res, trace>>

\* The observer thread delivers an event with path src_path to handler i
\* (on_created, on_deleted, on_modified, on_moved all call _handle_event).
\* `late` is set by the action that draws i and src_path.
Deliver(i, src_path) ==
    /\ i \in watched
    /\ Cardinality({ e \in delivered : e[1] = i }) < MaxEvents
    /\ event_handlers' =
           [event_handlers EXCEPT ![i].files = _handle_event(event_handlers[i], src_path)]
    /\ delivered' = delivered \cup {<<i, src_path>>}
    /\ UNCHANGED <<config, fs, args, skipFileExists, pc, observer, watched, missed,
                   _monitor_defns_defaults, reported, triggered_monitor_defn_keys,
                   has_skip_file, i_handler, commands_key, i_command, res, trace>>

\* Mutant of Poll: the loop gives up after one round without a change.
PollOnce ==
    /\ pc = "watching"
    /\ pc' = "settling"
    /\ UNCHANGED <<delivered, config, fs, args, skipFileExists, event_handlers, observer,
                   watched, late, missed,
                   _monitor_defns_defaults, reported, triggered_monitor_defn_keys,
                   has_skip_file, i_handler, commands_key, i_command, res, trace>>

\* One round of "while not has_change": with a change seen, the loop ends
\* after its sleep; the watches stay active.
Poll ==
    /\ pc = "watching"
    /\ pc' = IF \E i \in 1..Len(event_handlers) : has_change(event_handlers[i])
             THEN "settling" ELSE "watching"
    /\ UNCHANGED <<delivered, config, fs, args, skipFileExists, event_handlers, observer,
                   watched, late, missed,
                   _monitor_defns_defaults, reported, triggered_monitor_defn_keys,
                   has_skip_file, i_handler, commands_key, i_command, res, trace>>

\* Mutant of StopObserver: the observer is not stopped before start() goes on.
StopObserverSkipped ==
    /\ pc = "settling"
    /\ missed' = {}
    /\ pc' = "stopped"
    /\ UNCHANGED <<delivered, late, config, fs, args, skipFileExists, event_handlers,
                   observer, watched,
                   _monitor_defns_defaults, reported, triggered_monitor_defn_keys,
                   has_skip_file, i_handler, commands_key, i_command, res, trace>>

\* finally: sleep(1); self.observer.stop(); self.observer.join()
StopObserver ==
    /\ pc = "settling"
    /\ observer' = "stopped"
    /\ watched' = {}
    /\ missed' = {}
    /\ pc' = "stopped"
    /\ UNCHANGED <<delivered, late, config, fs, args, skipFileExists, event_handlers,
                   _monitor_defns_defaults, reported, triggered_monitor_defn_keys,
                   has_skip_file, i_handler, commands_key, i_command, res, trace>>

\* triggered_monitor_defn_keys = set(); has_skip_file = ...
SampleSkipFile ==
    /\ pc = "stopped"
    /\ triggered_monitor_defn_keys' = {}
    /\ has_skip_file' = skip_file_sample
    /\ i_handler' = 1
    /\ pc' = "computing"
    /\ UNCHANGED <<delivered, config, fs, args, skipFileExists, event_handlers, observer,
                   watched, late, missed,
                   _monitor_defns_defaults, reported, commands_key, i_command, res,
                   trace>>

\* One round of "for event_handler in self.event_handlers" up to the first
\* call of _run_commands, or the end of start().
Compute ==
    /\ pc = "computing"
    /\ IF i_handler > Len(event_handlers)
       THEN /\ pc' = "done"
            /\ UNCHANGED <<triggered_monitor_defn_keys, i_handler, commands_key,
                           i_command, trace>>
       ELSE LET event_handler == event_handlers[i_handler]
                monitor_key == event_handler.monitor_defn["__key"]
            IN  IF has_change(event_handler) /\ is_unrun(monitor_key)
                THEN /\ triggered_monitor_defn_keys' =
                            triggered_monitor_defn_keys \cup {monitor_key}
                     /\ commands_key' = first_key
                     /\ i_command' = 1
                     /\ trace' = Append(trace, CallEntry(monitor_key, first_key))
                     /\ pc' = "running"
                     /\ UNCHANGED i_handler
                ELSE /\ i_handler' = i_handler + 1
                     /\ UNCHANGED <<pc, triggered_monitor_defn_keys, commands_key,
                                    i_command, trace>>
    /\ UNCHANGED <<delivered, config, fs, args, skipFileExists, event_handlers, observer,
                   watched, late, missed,
                   _monitor_defns_defaults, reported, has_skip_file, res>>

\* Mutant of Return: a failing hook list is escalated to the 'error' list.
ReturnEscalated(tr, result) ==
    LET monitor_key == event_handlers[i_handler].monitor_defn["__key"]
        returned == Append(tr, ReturnEntry(monitor_key, commands_key, result))
    IN  IF commands_key = "commands" \/ (commands_key = "completed" /\ result # 0)
        THEN /\ res' = result
             /\ commands_key' = hook_key(result)
             /\ i_command' = 1
             /\ trace' = Append(returned, CallEntry(monitor_key, hook_key(result)))
             /\ UNCHANGED <<pc, i_handler>>
        ELSE /\ pc' = "computing"
             /\ i_handler' = i_handler + 1
             /\ commands_key' = None
             /\ i_command' = 0
             /\ trace' = returned
             /\ UNCHANGED res

\* Mutant of Return: a failing list ends the loop over the handlers.
ReturnAborting(tr, result) ==
    LET monitor_key == event_handlers[i_handler].monitor_defn["__key"]
        returned == Append(tr, ReturnEntry(monitor_key, commands_key, result))
    IN  IF result # 0
        THEN /\ pc' = "done"
             /\ commands_key' = None
             /\ i_command' = 0
             /\ trace' = returned
             /\ UNCHANGED <<res, i_handler>>
        ELSE IF commands_key = "commands"
        THEN /\ res' = result
             /\ commands_key' = hook_key(result)
             /\ i_command' = 1
             /\ trace' = Append(returned, CallEntry(monitor_key, hook_key(result)))
             /\ UNCHANGED <<pc, i_handler>>
        ELSE /\ pc' = "computing"
             /\ i_handler' = i_handler + 1
             /\ commands_key' = None
             /\ i_command' = 0
             /\ trace' = returned
             /\ UNCHANGED res

\* _run_commands returns result to start(): after 'commands' the hook list
\* is called; after 'skipped' or a hook list the loop goes on.
Return(tr, result) ==
    LET monitor_key == event_handlers[i_handler].monitor_defn["__key"]
        returned == Append(tr, ReturnEntry(monitor_key, commands_key, result))
    IN  IF commands_key = "commands"
        THEN /\ res' = result
             /\ commands_key' = hook_key(result)
             /\ i_command' = 1
             /\ trace' = Append(returned, CallEntry(monitor_key, hook_key(result)))
             /\ UNCHANGED <<pc, i_handler>>
        ELSE /\ pc' = "computing"
             /\ i_handler' = i_handler + 1
             /\ commands_key' = None
             /\ i_command' = 0
             /\ trace' = returned
             /\ UNCHANGED res

\* One round of "for command in commands": subprocess.run and the test of
\* its return code; past the last command, "return 0".
RunCommand ==
    /\ pc = "running"
    /\ LET monitor_defn == event_handlers[i_handler].monitor_defn
           commands == commands_of(monitor_defn, commands_key)
       IN  IF i_command <= Len(commands)
           THEN \E returncode \in ExitCodes :
                   LET ran == Append(trace,
                                  RunEntry(monitor_defn["__key"], commands_key, i_command,
                                           str_replace(commands[i_command],
                                                       monitor_defn["__name"]),
                                           returncode))
                   IN  IF returns_now(returncode)
                       THEN Return(ran, returncode)
                       ELSE /\ i_command' = i_command + 1
                            /\ trace' = ran
                            /\ UNCHANGED <<pc, i_handler, commands_key, res>>
           ELSE Return(trace, 0)
    /\ UNCHANGED <<delivered, config, fs, args, skipFileExists, event_handlers, observer,
                   watched, late, missed,
                   _monitor_defns_defaults, reported, triggered_monitor_defn_keys,
                   has_skip_file>>

\* main: "while args.repeat: time.sleep(1) ... files_watcher.start()"
Repeat ==
    /\ pc = "done"
    /\ args.repeat
    /\ pc' = "idle"
    /\ UNCHANGED <<delivered, config, fs, args, skipFileExists, event_handlers, observer,
                   watched, late, missed,
                   _monitor_defns_defaults, reported, triggered_monitor_defn_keys,
                   has_skip_file, i_handler, commands_key, i_command, res, trace>>

\* main without --repeat: exit(0)
Exit ==
    /\ pc = "done"
    /\ ~args.repeat
    /\ pc' = "exited"
    /\ UNCHANGED <<delivered, config, fs, args, skipFileExists, event_handlers, observer,
                   watched, late, missed,
                   _monitor_defns_defaults, reported, triggered_monitor_defn_keys,
                   has_skip_file, i_handler, commands_key, i_command, res, trace>>

\* The environment creates or removes the skip file.
ToggleSkipFile ==
    /\ args.skip_file # None
    /\ pc \notin {"exited", "crashed"}
    /\ skipFileExists' = ~skipFileExists
    /\ UNCHANGED <<delivered, config, fs, args, pc, event_handlers, observer,
                   watched, late, missed,
                   _monitor_defns_defaults, reported, triggered_monitor_defn_keys,
                   has_skip_file, i_handler, commands_key, i_command, res, trace>>

----------------------------------------------------------------------------
(* The runs of whole cycles: two configurations of two sources each. *)

Entry(name, defn) == [name |-> name, defn |-> defn]

Defaults == <<"__defaults__">>

SrcDir == <<"s">>

EnvFile == <<"e">>

TopFile == <<"t">>

\* The events the watch of a path can deliver: the path itself and what lies under it.
EventUniverse ==
    { <<"s", "/", "j">>, <<"s", "/", "k">>, <<"e">>, <<"t">>,
      <<"m", "/", "a">>, <<"m", "/", "b">> }

EventsUnder(path) ==
    { p \in EventUniverse :
        /\ Len(p) >= Len(path)
        /\ SubSeq(p, 1, Len(path)) = path
        /\ (Len(p) > Len(path) => p[Len(path) + 1] = "/") }

\* '.*j$'
EndsInJ == <<".*", "j", "$">>

ConfigA ==
    (<<"X">> :>
        << Entry(Defaults,
                 ("skipped" :> Str(<<"say", "_MONITOR_NAME_">>))
                 @@ ("started" :> Str(<<"st", "_MONITOR_NAME_">>))
                 @@ ("completed" :> List(<< <<"c1">>, <<"c2">> >>))
                 @@ ("error" :> List(<< <<"e1">>, <<"e2">> >>))
                 @@ ("commands" :> Str(<<"dflt">>))),
           Entry(<<"d1">>,
                 ("commands" :> List(<< <<"a">>, <<"b", "_MONITOR_NAME_">>, <<"c">> >>))
                 @@ ("searches" :>
                        List(<< ("paths" :> Str(SrcDir)) @@ ("patterns" :> <<EndsInJ>>),
                                ("paths" :> List(<<EnvFile, TopFile>>)) >>))) >>)
    @@
    (<<"Y">> :>
        << Entry(<<"d2">>,
                 ("searches" :> Str(TopFile)) @@ ("commands" :> Str(<<"y">>))) >>)

ConfigB ==
    (<<"X">> :>
        << Entry(<<"d1">>,
                 ("commands" :> Str(<<"a">>))
                 @@ ("searches" :> [kind |-> "strlist", v |-> <<SrcDir, EnvFile>>])),
           Entry(Defaults,
                 ("error" :> Str(<<"e1">>))
                 @@ ("completed" :> List(<< <<"c1">> >>))
                 @@ ("skipped" :> List(<< <<"s1">>, <<"s2">> >>))),
           Entry(<<"d2">>,
                 ("searches" :> List(<< ("paths" :> List(<<TopFile>>)) >>))) >>)
    @@
    (<<"Y">> :>
        << Entry(Defaults, ("commands" :> List(<< <<"y1">>, <<"y2">> >>))),
           Entry(<<"d1">>,
                 ("searches" :> Str(TopFile))
                 @@ ("error" :> List(<< <<"e1">>, <<"e2">> >>))) >>)

CycleConfigs == {ConfigA, ConfigB}

CycleFs == { {SrcDir, EnvFile, TopFile}, {SrcDir, EnvFile} }

SkipPath == <<"skip">>

\* The state after FilesWatcher.__init__, before the first start().
Constructed ==
    /\ pc = "idle"
    /\ event_handlers = <<>>
    /\ observer = "none"
    /\ watched = {}
    /\ _monitor_defns_defaults = EmptyDict
    /\ reported = <<>>
    /\ triggered_monitor_defn_keys = {}
    /\ has_skip_file = FALSE
    /\ i_handler = 0
    /\ commands_key = None
    /\ i_command = 0
    /\ res = 0
    /\ delivered = {}
    /\ late = {}
    /\ missed = {}
    /\ trace = <<>>

Init ==
    /\ config \in CycleConfigs
    /\ fs \in CycleFs
    /\ args \in [paths : {<< <<"X">>, <<"Y">> >>}, repeat : BOOLEAN,
                 exit_on_error : BOOLEAN, skip_file : {None, SkipPath}]
    /\ skipFileExists \in (IF args.skip_file = None THEN {FALSE} ELSE BOOLEAN)
    /\ Constructed

DeliverEvent ==
    \E i \in 1..Len(event_handlers) :
        \E src_path \in EventsUnder(event_handlers[i].path) :
            Deliver(i, src_path) /\ UNCHANGED late

Next ==
    \/ Setup
    \/ DeliverEvent
    \/ Poll
    \/ StopObserver
    \/ SampleSkipFile
    \/ Compute
    \/ RunCommand
    \/ Repeat
    \/ Exit
    \/ ToggleSkipFile

Spec == Init /\ [][Next]_vars

----------------------------------------------------------------------------
(* Vocabulary of the claims about a cycle's trace. *)

FirstLists == {"skipped", "commands"}

HookLists == {"completed", "error", "skipped"}

HandlerKeys == { event_handlers[i].monitor_defn["__key"] : i \in 1..Len(event_handlers) }

\* The merged definition a key stands for.
DefnOf(key) ==
    event_handlers[CHOOSE i \in 1..Len(event_handlers) :
                       event_handlers[i].monitor_defn["__key"] = key].monitor_defn

\* The list a definition declares under a key, as a sequence of commands.
Declared(key, list) ==
    IF list \in DOMAIN DefnOf(key)
    THEN (IF DefnOf(key)[list].kind = "str" THEN <<DefnOf(key)[list].v>>
          ELSE DefnOf(key)[list].v)
    ELSE <<>>

CallsOf(key, lists) ==
    { n \in DOMAIN trace :
        trace[n].op = "call" /\ trace[n].key = key /\ trace[n].list \in lists }

RunsOf(key, list) ==
    { n \in DOMAIN trace :
        trace[n].op = "run" /\ trace[n].key = key /\ trace[n].list = list }

\* The watches are stopped and the triggered definitions are being worked off.
PastStop == pc \in {"computing", "running", "done"}

\* Entry n runs command idx of its list right after the call (idx = 1) or
\* after command idx - 1 exited 0, and a non-zero exit is followed at once by
\* the return of that very code.
RunInOrder(n) ==
    /\ n > 1
    /\ trace[n].idx \in 1..Len(Declared(trace[n].key, trace[n].list))
    /\ trace[n - 1].key = trace[n].key
    /\ trace[n - 1].list = trace[n].list
    /\ IF trace[n].idx = 1
       THEN trace[n - 1].op = "call"
       ELSE /\ trace[n - 1].op = "run"
            /\ trace[n - 1].idx = trace[n].idx - 1
            /\ trace[n - 1].rc = 0
    /\ trace[n].rc # 0 =>
           /\ n < Len(trace)
           /\ trace[n + 1] = ReturnEntry(trace[n].key, trace[n].list, trace[n].rc)

\* Entry n returns the code of the failing command before it, or 0 after the
\* last command of the list (or at once for an empty or missing list).
ReturnOfList(n) ==
    /\ n > 1
    /\ trace[n - 1].key = trace[n].key
    /\ trace[n - 1].list = trace[n].list
    /\ IF trace[n].rc # 0
       THEN trace[n - 1].op = "run" /\ trace[n - 1].rc = trace[n].rc
       ELSE \/ /\ trace[n - 1].op = "run"
               /\ trace[n - 1].rc = 0
               /\ trace[n - 1].idx = Len(Declared(trace[n].key, trace[n].list))
            \/ /\ trace[n - 1].op = "call"
               /\ Declared(trace[n].key, trace[n].list) = <<>>

----------------------------------------------------------------------------
(* C1: in one cycle the pipeline of a definition key (its `skipped` list   *)
(* or its `commands` list) is started at most once, whatever number of its *)
(* watch targets recorded changes and whatever number of paths each        *)
(* recorded.                                                               *)
C1_OncePerCycle ==
    \A key \in HandlerKeys : Cardinality(CallsOf(key, FirstLists)) <= 1

\* Two collectors of one definition changed, one of them with two paths,
\* and the cycle ran the definition.
C1_Witness ==
    /\ pc = "done"
    /\ \E i, j \in 1..Len(event_handlers) :
          /\ i # j
          /\ event_handlers[i].monitor_defn["__key"] = event_handlers[j].monitor_defn["__key"]
          /\ Cardinality(event_handlers[i].files) = 2
          /\ event_handlers[j].files # {}
          /\ CallsOf(event_handlers[i].monitor_defn["__key"], FirstLists) # {}

(* C2: a definition's pipeline is run in a cycle iff one of its collectors *)
(* holds a recorded path when the watches are stopped: nothing is called   *)
(* or executed for a key without a non-empty collector, and when the cycle *)
(* ends every key with a non-empty collector has had its pipeline started. *)
C2_RunIffChanged ==
    /\ \A n \in DOMAIN trace :
          \E i \in 1..Len(event_handlers) :
              /\ event_handlers[i].monitor_defn["__key"] = trace[n].key
              /\ event_handlers[i].files # {}
    /\ pc = "done" =>
          \A i \in 1..Len(event_handlers) :
              event_handlers[i].files # {} =>
                  CallsOf(event_handlers[i].monitor_defn["__key"], FirstLists) # {}

\* A finished cycle in which one definition changed and ran while another
\* definition, with a watch target but no recorded path, ran nothing.
C2_Witness ==
    /\ pc = "done"
    /\ trace # <<>>
    /\ \E key \in HandlerKeys :
          /\ CallsOf(key, FirstLists \cup HookLists) = {}
          /\ \A i \in 1..Len(event_handlers) :
                event_handlers[i].monitor_defn["__key"] = key =>
                    event_handlers[i].files = {}

(* C3: the skip file is sampled once per cycle, when the watches have been *)
(* stopped; the sample is not changed while the pipelines run; with the    *)
(* sample true only `skipped` lists are called and executed, with it false *)
(* no `skipped` list is, whatever happens to the skip file meanwhile.      *)
C3_SkipSampledOnce ==
    /\ [](PastStop => \A n \in DOMAIN trace :
                          (trace[n].list = "skipped") <=> has_skip_file)
    /\ [][ /\ (pc = "stopped" /\ pc' = "computing") =>
                  /\ observer = "stopped"
                  /\ has_skip_file' = (args.skip_file # None /\ skipFileExists)
           /\ (PastStop /\ pc' # "idle") => has_skip_file' = has_skip_file ]_vars

\* Commands were executed while the skip file's existence differed from the
\* cycle's sample.
C3_Witness ==
    /\ pc = "running"
    /\ has_skip_file # skipFileExists
    /\ \E n \in DOMAIN trace : trace[n].op = "run"
    /\ i_command > 1

(* C4: the `commands` list is executed one command at a time in declared   *)
(* order (each with the definition's name substituted); the first non-zero *)
(* exit code ends the list, no later command is executed, and that code is *)
(* returned; 0 is returned only when every command of the list exited 0.   *)
C4_CommandsStopAtFirstFailure ==
    \A n \in DOMAIN trace :
        trace[n].list = "commands" =>
            /\ trace[n].op = "run" =>
                  /\ RunInOrder(n)
                  /\ trace[n].cmd =
                         str_replace(Declared(trace[n].key, "commands")[trace[n].idx],
                                     DefnOf(trace[n].key)["__name"])
            /\ trace[n].op = "return" =>
                  /\ ReturnOfList(n)
                  /\ Cardinality(RunsOf(trace[n].key, "commands")) =
                         trace[n - 1].idx

\* A list of three commands whose first exited 0 and whose second exited 2:
\* the list returned 2 and its third command never ran.
C4_Witness ==
    \E n \in DOMAIN trace :
        /\ trace[n].op = "return"
        /\ trace[n].list = "commands"
        /\ trace[n].rc = 2
        /\ Len(Declared(trace[n].key, "commands")) = 3
        /\ trace[n - 1].idx = 2

(* C5: in a cycle without skip file, the return of a definition's          *)
(* `commands` list is followed by the call of exactly one hook list:       *)
(* `completed` iff the list returned 0, otherwise `error`; a hook list is  *)
(* called only right after that return, and at most one per definition.    *)
C5_OneHookByResult ==
    /\ \A n \in DOMAIN trace :
          /\ (trace[n].op = "return" /\ trace[n].list = "commands") =>
                /\ n < Len(trace)
                /\ trace[n + 1] =
                       CallEntry(trace[n].key,
                                 IF trace[n].rc = 0 THEN "completed" ELSE "error")
          /\ (trace[n].op = "call" /\ trace[n].list \in {"completed", "error"}) =>
                /\ n > 1
                /\ trace[n - 1].op = "return"
                /\ trace[n - 1].list = "commands"
                /\ trace[n - 1].key = trace[n].key
    /\ \A key \in HandlerKeys : Cardinality(CallsOf(key, {"completed", "error"})) <= 1
    /\ (PastStop /\ ~has_skip_file /\ pc = "done") =>
          \A key \in HandlerKeys :
              CallsOf(key, {"commands"}) # {} => CallsOf(key, {"completed", "error"}) # {}

\* A finished cycle in which one definition's commands failed and ran
\* `error`, and another definition's succeeded and ran `completed`.
C5_Witness ==
    /\ pc = "done"
    /\ \E n, m \in DOMAIN trace :
          /\ trace[n].op = "run" /\ trace[n].list = "error"
          /\ trace[m].op = "run" /\ trace[m].list = "completed"

(* C6 as claimed: a hook list that was run has run to completion, every    *)
(* command of it executed, also after one of them exited non-zero.         *)
C6_HooksRunToCompletion ==
    \A n \in DOMAIN trace :
        (trace[n].op = "return" /\ trace[n].list \in HookLists) =>
            Cardinality(RunsOf(trace[n].key, trace[n].list)) =
                Len(Declared(trace[n].key, trace[n].list))

(* C6 as amended: a hook list is executed in declared order and ends at    *)
(* its first command that exits non-zero; its result is not escalated: no  *)
(* further list is run for that definition, and the cycle goes on with the *)
(* next triggered definition or ends normally.                             *)
C6_HooksStopNotEscalated ==
    \A n \in DOMAIN trace :
        trace[n].list \in HookLists =>
            /\ trace[n].op = "run" => RunInOrder(n)
            /\ trace[n].op = "return" =>
                  /\ ReturnOfList(n)
                  /\ IF n < Len(trace)
                     THEN /\ trace[n + 1].op = "call"
                          /\ trace[n + 1].key # trace[n].key
                          /\ trace[n + 1].list \in FirstLists
                     ELSE pc \in {"computing", "done", "idle", "exited"}

\* A hook list of two commands whose first command failed: the second never
\* ran, and the next definition's pipeline was started all the same.
C6_Witness ==
    \E n \in DOMAIN trace :
        /\ trace[n].op = "return"
        /\ trace[n].list \in HookLists
        /\ trace[n].rc # 0
        /\ Len(Declared(trace[n].key, trace[n].list)) = 2
        /\ trace[n - 1].idx = 1
        /\ n < Len(trace)

----------------------------------------------------------------------------
(* One collector under every event: a source with a single definition and  *)
(* a single search, with or without patterns, and event paths drawn from   *)
(* all strings over two characters.                                        *)

RECURSIVE SeqsUpTo(_, _)
\* The sequences over S of length 0..n.
SeqsUpTo(S, n) ==
    IF n = 0 THEN { <<>> }
    ELSE SeqsUpTo(S, n - 1)
         \cup { Append(q, x) : q \in { r \in SeqsUpTo(S, n - 1) : Len(r) = n - 1 }, x \in S }

\* 'a', '.*a', 'a$', '.*b$', 'ba', '.*'
PatternSet ==
    { <<"a">>, <<".*", "a">>, <<"a", "$">>, <<".*", "b", "$">>, <<"b", "a">>, <<".*">> }

MaxPatterns == 2        \* patterns in a generated `patterns` list

CollectPaths == SeqsUpTo({"a", "b"}, MaxPathLen)

CollectSearches ==
    { ("paths" :> Str(SrcDir)) }
    \cup { ("paths" :> Str(SrcDir)) @@ ("patterns" :> ps) :
             ps \in SeqsUpTo(PatternSet, MaxPatterns) }

InitCollect ==
    /\ \E search_defn \in CollectSearches :
          config = (<<"X">> :>
                       << Entry(<<"d1">>, ("searches" :> List(<<search_defn>>))) >>)
    /\ fs = {SrcDir}
    /\ args = [paths |-> << <<"X">> >>, repeat |-> FALSE, exit_on_error |-> FALSE,
               skip_file |-> None]
    /\ skipFileExists = FALSE
    /\ Constructed

DeliverAny ==
    \E i \in 1..Len(event_handlers) :
        \E src_path \in CollectPaths : Deliver(i, src_path) /\ UNCHANGED late

NextCollect == Setup \/ DeliverAny

SpecCollect == InitCollect /\ [][NextCollect]_vars

\* Some pattern of the list matches, by a match that begins at the first
\* character of the path (and may end before its last).
SomeMatchAtStart(patterns, path) ==
    \E k \in 1..Len(patterns) : MatchAt(patterns[k], path, 1)

\* Some pattern of the list matches somewhere in the path.
SomeMatchAnywhere(patterns, path) ==
    \E k \in 1..Len(patterns) : \E i \in 1..(Len(path) + 1) : MatchAt(patterns[k], path, i)

(* C7 as claimed: of the events delivered to a collector, the recorded    *)
(* paths are those of a search without patterns, and of a search with      *)
(* patterns those that one pattern matches anywhere in the path (regular-  *)
(* expression search).                                                     *)
C7_RecordedIffSearchMatches ==
    \A i \in 1..Len(event_handlers) :
        event_handlers[i].files =
            { path \in CollectPaths \cup EventUniverse :
                /\ <<i, path>> \in delivered
                /\ "patterns" \in DOMAIN event_handlers[i].monitor =>
                       SomeMatchAnywhere(event_handlers[i].monitor["patterns"], path) }

(* C7 as amended: with patterns, a delivered event's path is recorded iff  *)
(* one of the patterns matches at the beginning of the path (re.match:     *)
(* anchored at the start, not required to reach the end); without patterns *)
(* it is recorded iff it is not empty.  A path delivered twice is recorded *)
(* once (the recorded paths form a set).                                   *)
C7_RecordedIffMatchAtStart ==
    \A i \in 1..Len(event_handlers) :
        event_handlers[i].files =
            { path \in CollectPaths \cup EventUniverse :
                /\ <<i, path>> \in delivered
                /\ IF "patterns" \in DOMAIN event_handlers[i].monitor
                   THEN SomeMatchAtStart(event_handlers[i].monitor["patterns"], path)
                   ELSE path # <<>> }

\* A collector with patterns that recorded a path on a match that begins at
\* the path's first character and ends before its last, while another path,
\* matched only further in, was delivered without being recorded.
C7_Witness ==
    \E i \in 1..Len(event_handlers) :
        /\ "patterns" \in DOMAIN event_handlers[i].monitor
        /\ event_handlers[i].monitor["patterns"] = << <<"a">> >>
        /\ event_handlers[i].files = { <<"a", "b">> }
        /\ <<i, <<"b", "a">> >> \in delivered

----------------------------------------------------------------------------
(* Setup under generated configurations: two sources, documents of up to   *)
(* MaxEntries entries in every order, `paths` lists of up to MaxGlobs      *)
(* globs, several file systems, strict and lenient mode.  Every value is   *)
(* tagged with its source, so that its origin shows in a merged            *)
(* definition.                                                             *)

AnyInDir == <<"m", "/", "*">>

NonEmptySeqs(S, n) == SeqsUpTo(S, n) \ { <<>> }

DefaultsRecs(source) ==
    { ("commands" :> Str(source \o <<"default">>)),
      ("commands" :> Str(source \o <<"default">>))
      @@ ("completed" :> List(<< source \o <<"done">>, <<"say", "_MONITOR_NAME_">> >>)) }

PathsLists == NonEmptySeqs({SrcDir, AnyInDir}, MaxGlobs)

\* Source X draws the `paths` list of d1 from PathsLists; source Y has one.
FirstRecs(source) ==
    UNION { { ("searches" :> List(<< ("paths" :> List(paths)) >>)),
              ("searches" :> List(<< ("paths" :> List(paths)) >>))
              @@ ("commands" :> List(<< source \o <<"own">> >>)) } :
            paths \in (IF source = <<"X">> THEN PathsLists ELSE { <<SrcDir>> }) }

\* The records of d2: two with a `searches` string, one without `searches`
\* and one whose search has no `paths`.
SecondRecs(source) ==
    { ("searches" :> Str(SrcDir)),
      ("searches" :> Str(SrcDir)) @@ ("completed" :> Str(source \o <<"own">>)),
      ("commands" :> Str(source \o <<"own">>)),
      ("searches" :> List(<< ("name" :> Str(<<"n">>)) >>)) }

EntriesOf(source, names) ==
    { Entry(Defaults, d) : d \in (IF Defaults \in names THEN DefaultsRecs(source) ELSE {}) }
    \cup { Entry(<<"d1">>, d) : d \in (IF <<"d1">> \in names THEN FirstRecs(source) ELSE {}) }
    \cup { Entry(<<"d2">>, d) : d \in (IF <<"d2">> \in names THEN SecondRecs(source) ELSE {}) }

\* The documents of a source: entries with distinct names, in any order.
Documents(source, names) ==
    { doc \in NonEmptySeqs(EntriesOf(source, names), MaxEntries) :
        \A i, j \in 1..Len(doc) : i # j => doc[i].name # doc[j].name }

SetupFs == { {SrcDir, <<"m", "/", "a">>, <<"m", "/", "b">>}, {SrcDir}, {<<"m", "/", "a">>} }

\* What an earlier cycle, run before the sources were edited, may have left.
LeftDefaults == { EmptyDict, ("error" :> Str(<<"old">>)) @@ ("completed" :> Str(<<"old">>)) }

InitSetup ==
    /\ \E docX \in Documents(<<"X">>, {Defaults, <<"d1">>, <<"d2">>}) :
          \E docY \in Documents(<<"Y">>, {Defaults, <<"d1">>}) :
              config = (<<"X">> :> docX) @@ (<<"Y">> :> docY)
    /\ fs \in SetupFs
    /\ args \in [paths : {<< <<"X">>, <<"Y">> >>}, repeat : {FALSE},
                 exit_on_error : BOOLEAN, skip_file : {None}]
    /\ skipFileExists = FALSE
    /\ pc = "idle"
    /\ event_handlers = <<>>
    /\ observer = "none"
    /\ watched = {}
    /\ _monitor_defns_defaults \in LeftDefaults
    /\ reported = <<>>
    /\ triggered_monitor_defn_keys = {}
    /\ has_skip_file = FALSE
    /\ i_handler = 0
    /\ commands_key = None
    /\ i_command = 0
    /\ res = 0
    /\ delivered = {}
    /\ late = {}
    /\ missed = {}
    /\ trace = <<>>

NextSetup == Setup

SpecSetup == InitSetup /\ [][NextSetup]_vars

\* The name and the source of the definition a collector belongs to.
NameOf(event_handler) == event_handler.monitor_defn["__name"]

SourceOf(event_handler) ==
    SubSeq(event_handler.monitor_defn["__key"], 1,
           Len(event_handler.monitor_defn["__key"]) - Len(NameOf(event_handler)) - 1)

IndexIn(doc, name) == CHOOSE k \in 1..Len(doc) : doc[k].name = name

HasEntry(doc, name) == \E k \in 1..Len(doc) : doc[k].name = name

\* The record the source gives the collector's definition, and the
\* __defaults__ record of that source.
OwnRecord(event_handler) ==
    config[SourceOf(event_handler)][IndexIn(config[SourceOf(event_handler)],
                                            NameOf(event_handler))].defn

DefaultsRecord(source) == config[source][IndexIn(config[source], Defaults)].defn

DefaultsBefore(event_handler) ==
    /\ HasEntry(config[SourceOf(event_handler)], Defaults)
    /\ IndexIn(config[SourceOf(event_handler)], Defaults)
           < IndexIn(config[SourceOf(event_handler)], NameOf(event_handler))

AddedKeys == {"__name", "__key"}

KeepsOwn(event_handler) ==
    \A k \in DOMAIN OwnRecord(event_handler) :
        event_handler.monitor_defn[k] = OwnRecord(event_handler)[k]

InheritsDefaults(event_handler) ==
    \A k \in DOMAIN DefaultsRecord(SourceOf(event_handler)) :
        k \notin DOMAIN OwnRecord(event_handler) =>
            /\ k \in DOMAIN event_handler.monitor_defn
            /\ event_handler.monitor_defn[k] = DefaultsRecord(SourceOf(event_handler))[k]

(* C8 as claimed: every definition of a source that has a __defaults__     *)
(* entry, wherever the two stand in the source, keeps the value of each    *)
(* key it sets and has the __defaults__ value of each key it does not set. *)
C8_DefaultsAnywhere ==
    \A i \in 1..Len(event_handlers) :
        /\ KeepsOwn(event_handlers[i])
        /\ HasEntry(config[SourceOf(event_handlers[i])], Defaults) =>
               InheritsDefaults(event_handlers[i])

(* C8 as amended: a definition keeps the value of each key it sets; one    *)
(* that stands after the __defaults__ entry of its source has the          *)
(* __defaults__ value of each key it does not set and no other key; one    *)
(* that stands before it (or in a source without it) has its own keys only.*)
C8_DefaultsForFollowing ==
    \A i \in 1..Len(event_handlers) :
        /\ KeepsOwn(event_handlers[i])
        /\ IF DefaultsBefore(event_handlers[i])
           THEN /\ InheritsDefaults(event_handlers[i])
                /\ DOMAIN event_handlers[i].monitor_defn =
                       DOMAIN OwnRecord(event_handlers[i])
                       \cup DOMAIN DefaultsRecord(SourceOf(event_handlers[i]))
                       \cup AddedKeys
           ELSE DOMAIN event_handlers[i].monitor_defn =
                    DOMAIN OwnRecord(event_handlers[i]) \cup AddedKeys

\* After a setup: a definition that follows its source's __defaults__ sets
\* `commands` itself and inherits `completed`, and a definition of the other
\* source stands before a __defaults__ that sets a key it lacks.
C8_Witness ==
    /\ pc = "watching"
    /\ \E i, j \in 1..Len(event_handlers) :
          /\ DefaultsBefore(event_handlers[i])
          /\ "commands" \in DOMAIN OwnRecord(event_handlers[i])
          /\ "completed" \in DOMAIN DefaultsRecord(SourceOf(event_handlers[i]))
          /\ SourceOf(event_handlers[j]) # SourceOf(event_handlers[i])
          /\ HasEntry(config[SourceOf(event_handlers[j])], Defaults)
          /\ ~DefaultsBefore(event_handlers[j])
          /\ "commands" \notin DOMAIN OwnRecord(event_handlers[j])

(* C9: the merged fields of a definition come from its own record or from  *)
(* the __defaults__ of its own source: no value of another source's        *)
(* __defaults__, in this cycle or left by an earlier one, is in it.        *)
C9_DefaultsStayInSource ==
    \A i \in 1..Len(event_handlers) :
        \A k \in DOMAIN event_handlers[i].monitor_defn \ AddedKeys :
            \/ /\ k \in DOMAIN OwnRecord(event_handlers[i])
               /\ event_handlers[i].monitor_defn[k] = OwnRecord(event_handlers[i])[k]
            \/ /\ HasEntry(config[SourceOf(event_handlers[i])], Defaults)
               /\ k \in DOMAIN DefaultsRecord(SourceOf(event_handlers[i]))
               /\ event_handlers[i].monitor_defn[k] =
                      DefaultsRecord(SourceOf(event_handlers[i]))[k]

\* After a setup: source X has a __defaults__ (with `commands`), and a
\* definition of source Y, which has no __defaults__, is watched and has no
\* `commands`.
C9_Witness ==
    /\ pc = "watching"
    /\ _monitor_defns_defaults = EmptyDict
    /\ HasEntry(config[<<"X">>], Defaults)
    /\ ~HasEntry(config[<<"Y">>], Defaults)
    /\ \E i \in 1..Len(event_handlers) :
          /\ SourceOf(event_handlers[i]) = <<"Y">>
          /\ "commands" \notin DOMAIN event_handlers[i].monitor_defn

\* The globs of a definition's searches, as the source declares them.
GlobsOf(defn) ==
    IF defn["searches"].kind = "str" THEN {defn["searches"].v}
    ELSE UNION { { defn["searches"].v[k]["paths"].v[g] :
                     g \in 1..Len(defn["searches"].v[k]["paths"].v) } :
                 k \in 1..Len(defn["searches"].v) }

(* C10: every glob of a `paths` list that expands to no path is reported   *)
(* as a configuration error, also when another glob of the same list does  *)
(* expand; in lenient mode the setup goes on, so that after it every such  *)
(* glob of every definition has been reported.                             *)
C10_EveryEmptyGlobReported ==
    (pc = "watching" /\ observer = "started" /\ ~args.exit_on_error) =>
        \A source \in DOMAIN config :
            \A k \in 1..Len(config[source]) :
                config[source][k].name # Defaults =>
                    \A g \in GlobsOf(config[source][k].defn) :
                        (\A p \in fs : ~GlobMatch(g, p)) =>
                            \E r \in 1..Len(reported) : reported[r] = g

----------------------------------------------------------------------------
(* C11: in a cycle without skip file, a triggered definition that declares *)
(* a `started` list has that list executed before its `commands` list is   *)
(* called: the first command of `started` has run before that call.        *)
C11_StartedBeforeCommands ==
    \A n \in DOMAIN trace :
        (/\ trace[n].op = "call"
         /\ trace[n].list = "commands"
         /\ Declared(trace[n].key, "started") # <<>>) =>
            \E k \in 1..(n - 1) :
                /\ trace[k].op = "run"
                /\ trace[k].key = trace[n].key
                /\ trace[k].list = "started"
                /\ trace[k].idx = 1

----------------------------------------------------------------------------
\* The record has `searches`, and each of its searches has `paths`.
HasRequiredFields(defn) ==
    /\ "searches" \in DOMAIN defn
    /\ defn["searches"].kind = "list" =>
           \A k \in 1..Len(defn["searches"].v) :
               "paths" \in DOMAIN defn["searches"].v[k]

(* C14: a definition without `searches`, or with a search without `paths`, *)
(* is a configuration error that is fatal in strict mode only: in lenient  *)
(* mode the setup does not end the process, and every path matched by a    *)
(* glob of a definition that has its required fields gets a collector.     *)
C14_MissingFieldNotFatalWhenLenient ==
    (pc # "idle" /\ ~args.exit_on_error) =>
        /\ pc = "watching"
        /\ \A source \in DOMAIN config :
              \A k \in 1..Len(config[source]) :
                  (/\ config[source][k].name # Defaults
                   /\ HasRequiredFields(config[source][k].defn)) =>
                      \A g \in GlobsOf(config[source][k].defn) :
                          \A p \in fs :
                              GlobMatch(g, p) =>
                                  \E i \in 1..Len(event_handlers) :
                                      /\ event_handlers[i].path = p
                                      /\ event_handlers[i].monitor_defn["__key"] =
                                             source \o <<":">> \o config[source][k].name

----------------------------------------------------------------------------
(* Repeated cycles (--repeat) in a changing environment: the sources are   *)
(* edited, a new match of a glob appears, a watched path is removed during *)
(* a setup, and paths change while no watch is started.                    *)

MaxMissed == 1          \* changes under no started watch, between two stops

\* One definition, watching what 'm/*' expands to.
RepeatA ==
    (<<"X">> :>
        << Entry(<<"d1">>,
                 ("commands" :> Str(<<"a">>)) @@ ("searches" :> Str(AnyInDir))) >>)

\* RepeatA after an edit that adds a definition (with a pattern '.*j$').
RepeatB ==
    (<<"X">> :>
        << Entry(<<"d1">>,
                 ("commands" :> Str(<<"a">>)) @@ ("searches" :> Str(AnyInDir))),
           Entry(<<"d2">>,
                 ("commands" :> Str(<<"b">>))
                 @@ ("error" :> Str(<<"e1">>))
                 @@ ("searches" :>
                        List(<< ("paths" :> Str(SrcDir))
                                @@ ("patterns" :> <<EndsInJ>>) >>))) >>)

RepeatConfigs == {RepeatA, RepeatB}

NewFile == <<"m", "/", "b">>

InitRepeat ==
    /\ config = RepeatA
    /\ fs = {SrcDir, <<"m", "/", "a">>}
    /\ args = [paths |-> << <<"X">> >>, repeat |-> TRUE, exit_on_error |-> FALSE,
               skip_file |-> None]
    /\ skipFileExists = FALSE
    /\ Constructed

\* An event is delivered; those delivered after the polling loop has seen a
\* change (during "finally: time.sleep(1)") are noted in `late`.
DeliverTracked ==
    \E i \in 1..Len(event_handlers) :
        \E src_path \in EventsUnder(event_handlers[i].path) :
            /\ Deliver(i, src_path)
            /\ late' = IF pc = "watching" THEN late ELSE late \cup {<<i, src_path>>}

\* The sources are edited: what yaml.load returns at the next setup.
EditConfig ==
    /\ pc \notin {"exited", "crashed"}
    /\ config' \in RepeatConfigs \ {config}
    /\ UNCHANGED <<fs, args, skipFileExists, pc, event_handlers, observer, watched,
                   _monitor_defns_defaults, reported, triggered_monitor_defn_keys,
                   has_skip_file, i_handler, commands_key, i_command, res, delivered,
                   late, missed, trace>>

\* A file is created or removed: what glob.iglob returns at the next setup.
ChangeFs ==
    /\ pc \notin {"exited", "crashed"}
    /\ fs' = IF NewFile \in fs THEN fs \ {NewFile} ELSE fs \cup {NewFile}
    /\ UNCHANGED <<config, args, skipFileExists, pc, event_handlers, observer, watched,
                   _monitor_defns_defaults, reported, triggered_monitor_defn_keys,
                   has_skip_file, i_handler, commands_key, i_command, res, delivered,
                   late, missed, trace>>

\* The paths that change while unwatched: one under a directory that is a
\* watch target of RepeatB, and the file that ChangeFs creates.
UnseenPaths == { <<"s", "/", "j">>, NewFile }

\* The started watches that report a change of path p.
WatchesOf(p) == { i \in watched : p \in EventsUnder(event_handlers[i].path) }

\* A path changes while no started watch reports it: no handler is called.
ChangeUnseen ==
    /\ pc \notin {"exited", "crashed"}
    /\ Cardinality(missed) < MaxMissed
    /\ \E p \in UnseenPaths :
          /\ WatchesOf(p) = {}
          /\ p \notin missed
          /\ missed' = missed \cup {p}
    /\ UNCHANGED <<config, fs, args, skipFileExists, pc, event_handlers, observer,
                   watched, _monitor_defns_defaults, reported,
                   triggered_monitor_defn_keys, has_skip_file, i_handler, commands_key,
                   i_command, res, delivered, late, trace>>

NextRepeat ==
    \/ Setup
    \/ DeliverTracked
    \/ Poll
    \/ StopObserver
    \/ SampleSkipFile
    \/ Compute
    \/ RunCommand
    \/ Repeat
    \/ EditConfig
    \/ ChangeFs
    \/ ChangeUnseen

SpecRepeat == InitRepeat /\ [][NextRepeat]_vars


----------------------------------------------------------------------------
(* C12: when a cycle has ended, normally (start() returned) or by a        *)
(* failure (exit(1) or an uncaught exception, in the setup or later), no   *)
(* watch started in that cycle is still started.                           *)
C12_NoWatchLeftAtCycleEnd ==
    pc \in {"done", "exited", "crashed"} => watched = {}

----------------------------------------------------------------------------
(* C13: when the watch of one target fails to start (its path is gone) and *)
(* the mode is lenient, the cycle goes on with the watch of every other    *)
(* target started: every collector whose path exists is watched.           *)
C13_StartFailureIsolated ==
    (pc = "watching" /\ observer = "failed") =>
        \A i \in 1..Len(event_handlers) :
            event_handlers[i].path \in fs => i \in watched

----------------------------------------------------------------------------
\* The step adds one path to the recorded set of collector i and to nothing
\* else: an event of i's own watch target, delivered while its watch is
\* started.
WrittenByOwnDelivery(i) ==
    /\ i \in watched
    /\ \E p \in EventsUnder(event_handlers[i].path) :
          /\ event_handlers'[i].files = event_handlers[i].files \cup {p}
          /\ <<i, p>> \in delivered'
    /\ \A j \in 1..Len(event_handlers) :
          j # i => event_handlers'[j] = event_handlers[j]

(* C15 as claimed: a collector is written only by event delivery for its   *)
(* own watch target, and no step of the cycle's flow that reads a          *)
(* collector (has_change, in the polling loop or in the computation of the *)
(* triggered definitions) is taken while a watch is started.               *)
C15_NoReadWhileWatched ==
    [][ /\ (Poll \/ Compute) => watched = {}
        /\ \A i \in 1..Len(event_handlers) :
              (pc # "idle" /\ event_handlers'[i].files # event_handlers[i].files) =>
                  WrittenByOwnDelivery(i) ]_vars

(* C15 as amended: a collector is written only by event delivery for its   *)
(* own watch target, while that watch is started; the cycle's flow never   *)
(* writes one; it reads the collectors in the polling loop while the       *)
(* watches are started (to detect the first change) and computes the       *)
(* triggered definitions only after every watch has been stopped.          *)
C15_TriggersReadAfterStop ==
    [][ /\ Compute => (watched = {} /\ observer = "stopped")
        /\ (Poll \/ Compute \/ StopObserver \/ SampleSkipFile \/ RunCommand) =>
               event_handlers' = event_handlers
        /\ \A i \in 1..Len(event_handlers) :
              (pc # "idle" /\ event_handlers'[i].files # event_handlers[i].files) =>
                  WrittenByOwnDelivery(i) ]_vars

\* The polling loop has read a recorded change while every watch was (and
\* still is) started, and another collector is still empty.
C15_Witness ==
    /\ pc = "settling"
    /\ watched = 1..Len(event_handlers)
    /\ \E i, j \in 1..Len(event_handlers) :
          event_handlers[i].files # {} /\ event_handlers[j].files = {}

----------------------------------------------------------------------------
NoChangeRecorded == \A i \in 1..Len(event_handlers) : event_handlers[i].files = {}

\* start() has left the polling loop.
PastPolling == pc \in {"settling", "stopped", "computing", "running", "done"}

(* C16: while every collector is empty the cycle stays in the polling      *)
(* loop, whatever time passes: the watches are not stopped and no command  *)
(* is executed; start() is past the loop only with a recorded change, and  *)
(* a cycle that has completed has triggered at least one definition.       *)
C16_WatchingUntilChange ==
    /\ [](/\ PastPolling => ~NoChangeRecorded
          /\ pc = "watching" => (trace = <<>> /\ observer \in {"started", "failed"})
          /\ pc = "done" => (triggered_monitor_defn_keys # {} /\ trace # <<>>))
    /\ [][ (pc = "watching" /\ NoChangeRecorded) =>
               (pc' = "watching" /\ watched' = watched /\ trace' = <<>>) ]_vars

\* A cycle that completed after one recorded path, with one definition
\* triggered and a collector of another definition still empty.
C16_Witness ==
    /\ pc = "done"
    /\ Cardinality(triggered_monitor_defn_keys) = 1
    /\ Cardinality(UNION { event_handlers[i].files : i \in 1..Len(event_handlers) }) = 1
    /\ \E key \in HandlerKeys : key \notin triggered_monitor_defn_keys

----------------------------------------------------------------------------
\* The event passes the filter of the collector it is delivered to.
PassesFilter(i, path) ==
    IF "patterns" \in DOMAIN event_handlers[i].monitor
    THEN SomeMatchAtStart(event_handlers[i].monitor["patterns"], path)
    ELSE path # <<>>

KeyOf(i) == event_handlers[i].monitor_defn["__key"]

(* C17: after the polling loop has seen the first change, the watches stay *)
(* started until start() stops them; an event delivered in between that    *)
(* passes its collector's filter is recorded, and when the cycle is done   *)
(* its definition has been triggered in that cycle, also when no change of *)
(* that definition was recorded before.                                    *)
C17_SettleWindowSameCycle ==
    /\ late \subseteq delivered
    /\ (pc = "settling" /\ observer = "started") => watched = 1..Len(event_handlers)
    /\ \A e \in late :
          PassesFilter(e[1], e[2]) =>
              /\ e[2] \in event_handlers[e[1]].files
              /\ pc = "done" =>
                    /\ KeyOf(e[1]) \in triggered_monitor_defn_keys
                    /\ CallsOf(KeyOf(e[1]), {"commands"}) # {}

\* A finished cycle in which the first change was one of definition d1, and
\* every event of another definition came after the polling loop had ended:
\* both definitions ran.
C17_Witness ==
    /\ pc = "done"
    /\ \E e \in late, f \in delivered \ late :
          /\ KeyOf(e[1]) # KeyOf(f[1])
          /\ PassesFilter(e[1], e[2])
          /\ \A g \in delivered \ late : KeyOf(g[1]) # KeyOf(e[1])
          /\ \E n \in DOMAIN trace : trace[n].op = "run" /\ trace[n].key = KeyOf(e[1])
          /\ \E n \in DOMAIN trace : trace[n].op = "run" /\ trace[n].key = KeyOf(f[1])

----------------------------------------------------------------------------
\* The globs a definition record declares, in each of the forms `searches`
\* and `paths` may take.
TargetGlobs(defn) ==
    IF defn["searches"].kind = "str" THEN { defn["searches"].v }
    ELSE IF defn["searches"].kind = "strlist"
    THEN { defn["searches"].v[g] : g \in 1..Len(defn["searches"].v) }
    ELSE UNION { { as_list(defn["searches"].v[k]["paths"])[g] :
                     g \in 1..Len(as_list(defn["searches"].v[k]["paths"])) } :
                 k \in 1..Len(defn["searches"].v) }

\* The watch targets a configuration stands for on a file system, each with
\* the key of its definition.
TargetsOf(documents, files) ==
    UNION { UNION { { <<source \o <<":">> \o documents[source][k].name, p>> :
                        p \in { q \in files :
                                  \E g \in TargetGlobs(documents[source][k].defn) :
                                      GlobMatch(g, q) } } :
                    k \in { n \in 1..Len(documents[source]) :
                              documents[source][n].name # Defaults } } :
            source \in DOMAIN documents }

\* The watch targets of the collectors.
Targets(handlers) ==
    { <<handlers[i].monitor_defn["__key"], handlers[i].path>> : i \in 1..Len(handlers) }

(* C18: with --repeat, the setup of a cycle (one that reaches the polling  *)
(* loop) rebuilds the collectors from the sources and the file system as   *)
(* they are at that setup, every one empty, and only those are watched;    *)
(* during the cycle the targets do not change, whatever is edited or       *)
(* created meanwhile; and a definition runs in a cycle only on an event    *)
(* delivered in that cycle.                                                *)
C18_RebuiltEveryCycle ==
    /\ [][ /\ (pc = "idle" /\ pc' = "watching") =>
                  /\ Targets(event_handlers') = TargetsOf(config, fs)
                  /\ \A i \in 1..Len(event_handlers') : event_handlers'[i].files = {}
                  /\ watched' \subseteq 1..Len(event_handlers')
                  /\ observer' = "started" => watched' = 1..Len(event_handlers')
           /\ pc # "idle" => Targets(event_handlers') = Targets(event_handlers) ]_vars
    /\ [](\A n \in DOMAIN trace :
            \E e \in delivered :
                /\ KeyOf(e[1]) = trace[n].key
                /\ e[2] \in event_handlers[e[1]].files)

\* A cycle after one that ran d1 only: its collectors are empty, and among
\* its watch targets are the file created and the definition added since
\* the process started.
C18_Witness ==
    /\ pc = "watching"
    /\ NoChangeRecorded
    /\ triggered_monitor_defn_keys = { <<"X", ":", "d1">> }
    /\ watched = 1..Len(event_handlers)
    /\ \E i, j \in 1..Len(event_handlers) :
          /\ event_handlers[i].path = NewFile
          /\ KeyOf(j) = <<"X", ":", "d2">>

----------------------------------------------------------------------------
\* The returns of a list of a definition, as positions of the trace.
ReturnsOf(key, list) ==
    { n \in DOMAIN trace :
        trace[n].op = "return" /\ trace[n].key = key /\ trace[n].list = list }

\* The pipeline of the definition has run once, from the call of its first
\* list to the return of its last, its own result choosing the hook.
PipelineRunOnce(key) ==
    /\ Cardinality(CallsOf(key, FirstLists)) = 1
    /\ \A n \in CallsOf(key, FirstLists) :
          Cardinality(ReturnsOf(key, trace[n].list)) = 1
    /\ \A n \in ReturnsOf(key, "commands") :
          /\ Cardinality(CallsOf(key, {"completed", "error"})) = 1
          /\ \A h \in CallsOf(key, {"completed", "error"}) :
                /\ trace[h].list = (IF trace[n].rc = 0 THEN "completed" ELSE "error")
                /\ Cardinality(ReturnsOf(key, trace[h].list)) = 1

(* C19: a command that fails, in `commands` or in a hook list, ends its    *)
(* own list only: start() goes on to the next handler, the process does    *)
(* not end, and when the cycle is done every definition with a recorded    *)
(* change has had its pipeline run exactly once, with the result of its    *)
(* own `commands` list choosing between its `completed` and `error` lists. *)
C19_FailureStaysInItsPipeline ==
    /\ [](/\ pc \in {"crashed", "exited"} =>
                (trace = <<>> \/ (pc = "exited" /\ i_handler > Len(event_handlers)))
          /\ pc = "done" =>
                /\ i_handler = Len(event_handlers) + 1
                /\ \A i \in 1..Len(event_handlers) :
                      event_handlers[i].files # {} => PipelineRunOnce(KeyOf(i)))
    /\ [][ (pc = "running" /\ trace' # trace) =>
               /\ pc' \in {"running", "computing"}
               /\ Len(trace') > Len(trace)
               /\ SubSeq(trace', 1, Len(trace)) = trace
               /\ \A n \in (Len(trace) + 1)..Len(trace') :
                     trace'[n].key = KeyOf(i_handler) ]_vars

\* A finished cycle in which the `commands` list of one definition failed,
\* its `error` list failed too, and a definition triggered after it ran its
\* `commands` with result 0 and then its `completed` list.
C19_Witness ==
    /\ pc = "done"
    /\ \E n, h, k \in DOMAIN trace :
          /\ n < h /\ h < k
          /\ trace[n].op = "return" /\ trace[n].list = "commands" /\ trace[n].rc # 0
          /\ trace[h].op = "return" /\ trace[h].list = "error" /\ trace[h].rc # 0
          /\ trace[h].key = trace[n].key
          /\ trace[k].op = "return" /\ trace[k].list = "commands" /\ trace[k].rc = 0
          /\ trace[k].key # trace[n].key
          /\ CallsOf(trace[k].key, {"completed"}) # {}

----------------------------------------------------------------------------
(* C20: only an event delivered while a watch of the running cycle is      *)
(* started is recorded: events are delivered in the polling loop and the   *)
(* settle window only, to started watches; a path that changes while no    *)
(* started watch reports it (after the stop of one cycle, during its       *)
(* pipelines, the pause and the next setup) reaches no collector; and the  *)
(* recorded paths of a cycle, and so the definitions it triggers, are      *)
(* those delivered in that cycle.                                          *)
C20_UnwatchedChangesAreLost ==
    /\ [](/\ \A i \in 1..Len(event_handlers) :
                \A p \in event_handlers[i].files : <<i, p>> \in delivered
          /\ pc \in {"idle", "stopped", "computing", "running", "done"} => watched = {}
          /\ triggered_monitor_defn_keys # {} /\ PastStop =>
                \A key \in triggered_monitor_defn_keys :
                    \E e \in delivered : KeyOf(e[1]) = key)
    /\ [][ /\ (delivered' \ delivered # {}) =>
                  /\ pc \in {"watching", "settling"}
                  /\ \A e \in delivered' \ delivered : e[1] \in watched
           /\ (missed' \ missed # {}) =>
                  /\ \A p \in missed' \ missed : WatchesOf(p) = {}
                  /\ event_handlers' = event_handlers
                  /\ delivered' = delivered
                  /\ trace' = trace ]_vars

\* The settle window of a cycle after the first: a path under a directory
\* that this cycle watches changed after the watches of the last cycle were
\* stopped and before those of this cycle were started, and the collector
\* of that directory has recorded nothing.
C20_Witness ==
    /\ pc = "settling"
    /\ triggered_monitor_defn_keys # {}
    /\ observer = "started"
    /\ <<"s", "/", "j">> \in missed
    /\ \E i \in watched :
          /\ event_handlers[i].path = SrcDir
          /\ event_handlers[i].files = {}
          /\ PassesFilter(i, <<"s", "/", "j">>)

====
